---- MODULE Spec2Model ----
(***************************************************************************)
(* Tasks REST API (Gin + MongoDB), src/main.go lines 1-247.                *)
(*                                                                         *)
(* The model follows main(): SetUpDatabase, the router goroutine that      *)
(* accepts requests and runs one handler per request, the wait on the      *)
(* interrupt signal, Client.Disconnect and the return of main.  The store  *)
(* is the "tasks" collection: a map from _id to the stored BSON document.  *)
(* Every handler issues at most one store call, which is atomic in the     *)
(* store, so a handler is one step; a request that has been accepted and   *)
(* whose handler has not run yet is the request in flight.                 *)
(*                                                                         *)
(* Lines 249-428 of src/main.go hold an earlier variant of the program     *)
(* (no validation, every error a 400); the model is of the first one.      *)
(* Spec is the process while no interrupt arrives; LifeSpec adds the       *)
(* interrupt and the return of main.                                       *)
(***************************************************************************)
EXTENDS Integers, Sequences, FiniteSets, TLC

\* ------------------------------------------------------------------ bounds

\* How many distinct ObjectIDs the driver can generate for inserts that carry
\* no _id (primitive.NewObjectID never repeats; the pool bounds the collection).
MaxGenerated == 1

\* ------------------------------------------------------- program constants

StatusOK == 200
StatusCreated == 201
StatusBadRequest == 400
StatusNotFound == 404
StatusUnprocessableEntity == 422
StatusInternalServerError == 500
MinTitleLen == 5
\* primitive.ObjectID is [12]byte; its hex form has twice as many digits.
ObjectIDBytes == 12

\* ------------------------------------------------------------- ObjectIDs

HexDigits == <<"0","1","2","3","4","5","6","7","8","9","a","b","c","d","e","f">>
UpperDigits == <<"0","1","2","3","4","5","6","7","8","9","A","B","C","D","E","F">>

IsHexDigit(c) == \E i \in 1..16 : HexDigits[i] = c \/ UpperDigits[i] = c

\* encoding/hex accepts both cases.
HexVal(c) == (CHOOSE i \in 1..16 : HexDigits[i] = c \/ UpperDigits[i] = c) - 1

NilObjectID == [i \in 1..ObjectIDBytes |-> 0]

\* primitive.ObjectIDFromHex: the string must hold exactly 24 hex digits.
ObjectIDFromHex(s) ==
    IF Len(s) # 2 * ObjectIDBytes \/ (\E i \in 1..Len(s) : ~IsHexDigit(s[i]))
    THEN [err |-> TRUE, id |-> NilObjectID]
    ELSE [err |-> FALSE,
          id  |-> [i \in 1..ObjectIDBytes |->
                      16 * HexVal(s[2 * i - 1]) + HexVal(s[2 * i])]]

\* ObjectID.Hex / MarshalJSON: the id as 24 lower-case hex digits, as the
\* "id" member of a task in a JSON response.
Hex(id) ==
    [i \in 1..(2 * ObjectIDBytes) |->
        IF i % 2 = 1 THEN HexDigits[(id[(i + 1) \div 2] \div 16) + 1]
                     ELSE HexDigits[(id[i \div 2] % 16) + 1]]

\* An ObjectID whose last byte is n and whose other bytes are 0.
MkId(n) == [i \in 1..ObjectIDBytes |-> IF i = ObjectIDBytes THEN n ELSE 0]

\* The id a client may put in a request body ("00..0a").
ClientId == MkId(10)

\* The ids the driver generates.
GeneratedIds == {MkId(16 + k) : k \in 1..MaxGenerated}

\* ----------------------------------------------------------------- titles

\* A title is a sequence of Unicode code points; a Go string holds its UTF-8
\* encoding and len() counts bytes.
UTF8Width(cp) == IF cp < 128 THEN 1 ELSE IF cp < 2048 THEN 2 ELSE IF cp < 65536 THEN 3 ELSE 4

RECURSIVE GoLen(_)
GoLen(s) == IF s = <<>> THEN 0 ELSE UTF8Width(Head(s)) + GoLen(Tail(s))

\* The number of characters of a title.
Chars(s) == Len(s)

TitleEmpty == <<>>
TitleAb == <<97, 98>>
TitleHello == <<104, 101, 108, 108, 111>>
\* three times U+00E9: 3 characters, 6 bytes
TitleAccents == <<233, 233, 233>>

Titles == {TitleEmpty, TitleAb, TitleHello, TitleAccents}

\* ------------------------------------------------------------------ tasks

\* type Task struct { ID; Title; Completed }
ZeroTask == [ID |-> NilObjectID, Title |-> TitleEmpty, Completed |-> FALSE]

\* bson.Marshal of a Task under its tags: _id and completed are omitempty,
\* title is always written.
MarshalBSON(task) ==
    [fields    |-> {"title"} \cup (IF task.ID # NilObjectID THEN {"_id"} ELSE {})
                             \cup (IF task.Completed THEN {"completed"} ELSE {}),
     id        |-> task.ID,
     title     |-> task.Title,
     completed |-> task.Completed]

\* Decode of a stored document into a Task: a missing field keeps Go's zero value.
DecodeTask(id, doc) ==
    [ID        |-> id,
     Title     |-> IF "title" \in doc.fields THEN doc.title ELSE TitleEmpty,
     Completed |-> IF "completed" \in doc.fields THEN doc.completed ELSE FALSE]

\* -------------------------------------------------------------- the store

\* The collection: a map from _id to the stored document (its other fields).
StoredDoc(doc) ==
    [fields    |-> doc.fields \ {"_id"},
     title     |-> doc.title,
     completed |-> doc.completed]

\* A store call reaches the server when the client is connected and the
\* network does not fail; otherwise the driver returns an error
\* (ErrClientDisconnected, a timeout, ...).
Reaches(client, fail) == client = "connected" /\ ~fail

\* Collection.InsertOne(ctx, task): the driver adds a generated _id to a
\* document that has none; the server rejects a duplicate _id.
InsertOne(st, doc, fresh, up) ==
    LET id == IF "_id" \in doc.fields THEN doc.id ELSE fresh IN
    IF ~up THEN [err |-> "unavailable", store |-> st, insertedID |-> NilObjectID]
    ELSE IF id \in DOMAIN st
    THEN [err |-> "duplicate key", store |-> st, insertedID |-> NilObjectID]
    ELSE [err |-> "", insertedID |-> id,
          store |-> [k \in DOMAIN st \cup {id} |->
                        IF k = id THEN StoredDoc(doc) ELSE st[k]]]

\* Collection.Find(ctx, bson.D{}) and cursor.All: every stored document.
Find(st, up) ==
    IF ~up THEN [err |-> "unavailable", docs |-> {}]
    ELSE [err |-> "", docs |-> {[id |-> k, doc |-> st[k]] : k \in DOMAIN st}]

\* Collection.FindOne(ctx, {_id: id}).Decode(&task): mongo.ErrNoDocuments
\* when no document has the id.
FindOne(st, id, up) ==
    IF ~up THEN [err |-> "unavailable", task |-> ZeroTask]
    ELSE IF id \notin DOMAIN st
    THEN [err |-> "mongo: no documents in result", task |-> ZeroTask]
    ELSE [err |-> "", task |-> DecodeTask(id, st[id])]

\* Collection.UpdateOne(ctx, {_id: id}, {$set: set}): no upsert; $set writes
\* the fields present in `set`; the server refuses to change _id.
UpdateOne(st, id, set, up) ==
    IF ~up THEN [err |-> "unavailable", MatchedCount |-> 0, store |-> st]
    ELSE IF id \notin DOMAIN st
    THEN [err |-> "", MatchedCount |-> 0, store |-> st]
    ELSE IF "_id" \in set.fields /\ set.id # id
    THEN [err |-> "immutable field _id", MatchedCount |-> 0, store |-> st]
    ELSE [err |-> "", MatchedCount |-> 1,
          store |-> [st EXCEPT ![id] =
                       [fields    |-> @.fields \cup (set.fields \ {"_id"}),
                        title     |-> IF "title" \in set.fields THEN set.title ELSE @.title,
                        completed |-> IF "completed" \in set.fields
                                      THEN set.completed ELSE @.completed]]]

\* Collection.DeleteOne(ctx, {_id: id}).
DeleteOne(st, id, up) ==
    IF ~up THEN [err |-> "unavailable", DeletedCount |-> 0, store |-> st]
    ELSE IF id \notin DOMAIN st
    THEN [err |-> "", DeletedCount |-> 0, store |-> st]
    ELSE [err |-> "", DeletedCount |-> 1,
          store |-> [k \in DOMAIN st \ {id} |-> st[k]]]

\* How a store call ended, as recorded with the response: "ok", "rejected"
\* (the server answered with an error) or "unavailable" (it was not reached).
CallOutcome(err) ==
    IF err = "" THEN "ok" ELSE IF err = "unavailable" THEN "unavailable" ELSE "rejected"

\* ------------------------------------------------------------ the handlers

\* A request body: `json` says whether it is well-formed JSON of the right
\* types; id is the hex string of its "id" member (empty when absent).
MalformedBody == [json |-> FALSE, id |-> <<>>, title |-> TitleEmpty, completed |-> FALSE]

\* The bodies clients send: one that does not decode, every title with either
\* value of completed, and two that also name an id.
Bodies ==
    {MalformedBody}
    \cup [json : {TRUE}, id : {<<>>}, title : Titles, completed : BOOLEAN]
    \cup [json : {TRUE}, id : {Hex(ClientId)}, title : {TitleHello}, completed : BOOLEAN]

\* c.BindJSON(&task): an absent or empty id decodes to the nil ObjectID, any
\* other id must be 24 hex digits.
BindJSON(body) ==
    LET oid == ObjectIDFromHex(body.id) IN
    IF ~body.json \/ (body.id # <<>> /\ oid.err)
    THEN [err |-> TRUE, task |-> ZeroTask]
    ELSE [err  |-> FALSE,
          task |-> [ID        |-> IF body.id = <<>> THEN NilObjectID ELSE oid.id,
                    Title     |-> body.title,
                    Completed |-> body.completed]]

\* What a handler leaves behind: the response (status, message, task or
\* tasks), the store, how its store call ended ("none": no call was made) and
\* the _id of the document it inserted.
Result(status, message, task, tasks, st, call, inserted) ==
    [status |-> status, message |-> message, task |-> task, tasks |-> tasks,
     store |-> st, call |-> call, insertedID |-> inserted]

\* throwError(status, err, c): a status of 0 becomes 500.
throwError(status, err, st, call) ==
    Result(IF status = 0 THEN StatusInternalServerError ELSE status,
           err, ZeroTask, {}, st, call, NilObjectID)

\* c.JSON(status, gin.H{"message": message})
JSONMessage(status, message, st, call) ==
    Result(status, message, ZeroTask, {}, st, call, NilObjectID)

\* c.BindJSON is MustBindWith: on an error it writes the 400 header itself
\* (AbortWithError), and gin's writer keeps the first header written, so the
\* status of a later c.JSON does not reach the client.
HeaderWritten(status, res) == [res EXCEPT !.status = status]

\* CreateTask without `task.Completed = false`.
KeepCompleted(task) == task

\* task.Completed = false
ForceNotCompleted(task) == [task EXCEPT !.Completed = FALSE]

CreateTask(body, st, client, fail, fresh) ==
    LET bound == BindJSON(body)
        task  == ForceNotCompleted(bound.task)
        ins   == InsertOne(st, MarshalBSON(task), fresh, Reaches(client, fail))
    IN  IF bound.err
        THEN HeaderWritten(StatusBadRequest,
                           throwError(StatusBadRequest, "invalid json", st, "none"))
        ELSE IF bound.task.Title = TitleEmpty
        THEN JSONMessage(StatusUnprocessableEntity, "Title cannot be empty", st, "none")
        ELSE IF GoLen(bound.task.Title) < MinTitleLen
        THEN JSONMessage(StatusUnprocessableEntity, "Title length must be at least 5",
                         st, "none")
        ELSE IF ins.err # ""
        THEN throwError(StatusInternalServerError, ins.err, st, CallOutcome(ins.err))
        ELSE Result(StatusCreated, "Task created", task, {}, ins.store, "ok",
                    ins.insertedID)

GetTasks(st, client, fail) ==
    LET found == Find(st, Reaches(client, fail)) IN
    IF found.err # ""
    THEN throwError(StatusInternalServerError, found.err, st, CallOutcome(found.err))
    ELSE Result(StatusOK, "", ZeroTask, found.docs, st, "ok", NilObjectID)

\* GetSpecificTask without the check of ObjectIDFromHex's error.
GetSpecificTaskUnchecked(id, st, client, fail) ==
    LET oid   == ObjectIDFromHex(id)
        found == FindOne(st, oid.id, Reaches(client, fail))
    IN  IF found.err # ""
        THEN throwError(StatusInternalServerError, found.err, st, CallOutcome(found.err))
        ELSE Result(StatusOK, "", found.task, {}, st, "ok", NilObjectID)

GetSpecificTask(id, st, client, fail) ==
    LET oid   == ObjectIDFromHex(id)
        found == FindOne(st, oid.id, Reaches(client, fail))
    IN  IF oid.err
        THEN throwError(StatusBadRequest, "invalid hex", st, "none")
        ELSE IF found.err # ""
        THEN throwError(StatusInternalServerError, found.err, st, CallOutcome(found.err))
        ELSE Result(StatusOK, "", found.task, {}, st, "ok", NilObjectID)

UpdateTask(id, body, st, client, fail) ==
    LET oid   == ObjectIDFromHex(id)
        bound == BindJSON(body)
        res   == UpdateOne(st, oid.id, MarshalBSON(bound.task), Reaches(client, fail))
    IN  IF oid.err
        THEN throwError(StatusBadRequest, "invalid hex", st, "none")
        ELSE IF bound.err
        THEN HeaderWritten(StatusBadRequest,
                           throwError(StatusInternalServerError, "invalid json", st, "none"))
        ELSE IF bound.task.Title = TitleEmpty
        THEN JSONMessage(StatusUnprocessableEntity, "Title cannot be empty", st, "none")
        ELSE IF GoLen(bound.task.Title) < MinTitleLen
        THEN JSONMessage(StatusUnprocessableEntity, "Title length must be at least 5",
                         st, "none")
        ELSE IF res.err # ""
        THEN throwError(StatusInternalServerError, res.err, st, CallOutcome(res.err))
        ELSE IF res.MatchedCount = 0
        THEN JSONMessage(StatusNotFound, "Task not found", res.store, "ok")
        ELSE JSONMessage(StatusOK, "Task updated", res.store, "ok")

\* DeleteTask without the look at DeletedCount.
DeleteTaskAlwaysOK(id, st, client, fail) ==
    LET oid == ObjectIDFromHex(id)
        res == DeleteOne(st, oid.id, Reaches(client, fail))
    IN  IF oid.err
        THEN throwError(StatusBadRequest, "invalid hex", st, "none")
        ELSE IF res.err # ""
        THEN throwError(StatusInternalServerError, res.err, st, CallOutcome(res.err))
        ELSE JSONMessage(StatusOK, "Task deleted", res.store, "ok")

DeleteTask(id, st, client, fail) ==
    LET oid == ObjectIDFromHex(id)
        res == DeleteOne(st, oid.id, Reaches(client, fail))
    IN  IF oid.err
        THEN throwError(StatusBadRequest, "invalid hex", st, "none")
        ELSE IF res.err # ""
        THEN throwError(StatusInternalServerError, res.err, st, CallOutcome(res.err))
        ELSE IF res.DeletedCount = 0
        THEN JSONMessage(StatusNotFound, "Task not found", res.store, "ok")
        ELSE JSONMessage(StatusOK, "Task deleted", res.store, "ok")

\* ------------------------------------------------------------ the process

\* What os.Getenv("MONGO_URI") returns and how the server at that address
\* behaves: "up", "refused" (Connect fails) or "silent" (Ping runs into the
\* 10 s deadline).
Environments ==
    [MONGO_URI : {"", "mongodb://localhost:27017"}, mongo : {"up", "refused", "silent"}]

\* SetUpDatabase without the Ping: Connect alone does not reach the server.
SetUpDatabaseNoPing(env) ==
    IF env.MONGO_URI = "" THEN [client |-> "nil", err |-> "MONGO_URI not set"]
    ELSE IF env.mongo = "refused" THEN [client |-> "nil", err |-> "connection refused"]
    ELSE [client |-> "connected", err |-> ""]

SetUpDatabase(env) ==
    IF env.MONGO_URI = "" THEN [client |-> "nil", err |-> "MONGO_URI not set"]
    ELSE IF env.mongo = "refused" THEN [client |-> "nil", err |-> "connection refused"]
    ELSE IF env.mongo = "silent" THEN [client |-> "nil", err |-> "context deadline exceeded"]
    ELSE [client |-> "connected", err |-> ""]

\* The :id path parameters clients send: the hex form of every id of the
\* model and of the nil id, an upper-case spelling, and two strings that are
\* no ObjectID (23 digits; 24 characters, one of them no hex digit).
UpperClientParam == [i \in 1..(2 * ObjectIDBytes) |-> IF i = 2 * ObjectIDBytes THEN "A" ELSE "0"]
ShortParam == [i \in 1..(2 * ObjectIDBytes - 1) |-> "0"]
NonHexParam == [i \in 1..(2 * ObjectIDBytes) |-> IF i = 2 * ObjectIDBytes THEN "g" ELSE "0"]

PathParams ==
    {Hex(id) : id \in GeneratedIds \cup {ClientId, NilObjectID}}
    \cup {UpperClientParam, ShortParam, NonHexParam}

\* The routes of SetupRoutes (GET / has no state and is left out).
Request(op, id, body) == [op |-> op, id |-> id, body |-> body]

Requests ==
    {Request("Create", <<>>, b) : b \in Bodies}
    \cup {Request("List", <<>>, MalformedBody)}
    \cup {Request("Get", p, MalformedBody) : p \in PathParams}
    \cup {Request(op, p, b) : op \in {"Update"}, p \in PathParams, b \in Bodies}
    \cup {Request("Delete", p, MalformedBody) : p \in PathParams}

VARIABLES
    environ,    \* the environment the process was started in
    pc,         \* where main is: "start", "serving", "disconnected", "exited"
    Client,     \* the global *mongo.Client: "nil", "connected", "disconnected"
    stdout,     \* what main printed with fmt.Print
    store,      \* the tasks collection
    generated,  \* the ObjectIDs the driver has generated
    cur,        \* the request in flight, or the last one with its response
    created,    \* the task of the last response, when that was a 201
    deleted     \* the ids deleted with a 200 and not inserted since

vars == <<environ, pc, Client, stdout, store, generated, cur, created, deleted>>

NoRequest ==
    [op |-> "none", id |-> <<>>, body |-> MalformedBody, done |-> TRUE,
     acceptedIn |-> "start", calledOn |-> "none",
     status |-> 0, message |-> "", task |-> ZeroTask, tasks |-> {}, call |-> "none"]

NoStore == [k \in {} |-> ZeroTask]

Init ==
    /\ environ \in Environments
    /\ pc = "start"
    /\ Client = "nil"
    /\ stdout = ""
    /\ store = NoStore
    /\ generated = {}
    /\ cur = NoRequest
    /\ created = [valid |-> FALSE, task |-> ZeroTask]
    /\ deleted = {}

\* main up to the go func() that runs the router: on an error of
\* SetUpDatabase it prints the error and returns.
Start ==
    /\ pc = "start"
    /\ LET r == SetUpDatabase(environ) IN
         IF r.err # ""
         THEN /\ stdout' = r.err
              /\ pc' = "exited"
              /\ UNCHANGED Client
         ELSE /\ Client' = r.client
              /\ pc' = "serving"
              /\ UNCHANGED stdout
    /\ UNCHANGED <<environ, store, generated, cur, created, deleted>>

\* router.Run serves for as long as the process lives: main never stops it.
Listening == pc \in {"serving", "disconnected"}

\* The ids the driver can still generate.
FreshIds == GeneratedIds \ generated

\* Whether CreateTask reaches InsertOne with a task that has no _id.
NeedsFresh(req) ==
    /\ req.op = "Create"
    /\ ~BindJSON(req.body).err
    /\ GoLen(req.body.title) >= MinTitleLen
    /\ BindJSON(req.body).task.ID = NilObjectID

\* The router accepts a request (one request is in flight at a time).
Accept(req) ==
    /\ Listening
    /\ cur.done
    /\ NeedsFresh(req) => FreshIds # {}
    /\ cur' = [NoRequest EXCEPT !.op = req.op, !.id = req.id, !.body = req.body,
                                 !.done = FALSE, !.acceptedIn = pc]
    /\ UNCHANGED <<environ, pc, Client, stdout, store, generated, created, deleted>>

\* The handler the route of the request names.
Dispatch(req, st, client, fail, fresh) ==
    CASE req.op = "Create" -> CreateTask(req.body, st, client, fail, fresh)
      [] req.op = "List"   -> GetTasks(st, client, fail)
      [] req.op = "Get"    -> GetSpecificTask(req.id, st, client, fail)
      [] req.op = "Update" -> UpdateTask(req.id, req.body, st, client, fail)
      [] req.op = "Delete" -> DeleteTask(req.id, st, client, fail)

\* The handler of the request in flight runs and writes its response.
Handle ==
    /\ Listening
    /\ ~cur.done
    /\ \E fail \in BOOLEAN :
       \E fresh \in (IF NeedsFresh(cur) THEN FreshIds ELSE {NilObjectID}) :
         LET r == Dispatch(cur, store, Client, fail, fresh) IN
         /\ store' = r.store
         /\ generated' = IF NeedsFresh(cur) /\ r.call # "none"
                          THEN generated \cup {fresh} ELSE generated
         /\ cur' = [cur EXCEPT !.done = TRUE, !.status = r.status,
                               !.message = r.message, !.task = r.task,
                               !.tasks = r.tasks, !.call = r.call,
                               !.calledOn = IF r.call = "none" THEN "none" ELSE Client]
         /\ created' = [valid |-> r.status = StatusCreated, task |-> r.task]
         /\ deleted' = IF cur.op = "Delete" /\ r.status = StatusOK
                        THEN deleted \cup {ObjectIDFromHex(cur.id).id}
                        ELSE deleted \ {r.insertedID}
    /\ UNCHANGED <<environ, pc, Client, stdout>>

\* <-quit returns on the interrupt signal and main goes on to
\* Client.Disconnect(ctx) with its 5 s deadline; nothing stops the router.
Interrupt ==
    /\ pc = "serving"
    /\ Client' = IF Client # "nil" THEN "disconnected" ELSE Client
    /\ pc' = "disconnected"
    /\ UNCHANGED <<environ, stdout, store, generated, cur, created, deleted>>

\* main returns: the process ends, and with it the router and its handlers.
Exit ==
    /\ pc = "disconnected"
    /\ pc' = "exited"
    /\ UNCHANGED <<environ, Client, stdout, store, generated, cur, created, deleted>>

\* The process from its start for as long as no interrupt arrives.
Serve ==
    \/ Start
    \/ \E req \in Requests : Accept(req)
    \/ Handle

Spec == Init /\ [][Serve]_vars

\* The whole life of the process, the interrupt and the return of main included.
Next ==
    \/ Start
    \/ \E req \in Requests : Accept(req)
    \/ Handle
    \/ Interrupt
    \/ Exit

LifeSpec == Init /\ [][Next]_vars

\* ------------------------------------------------------------- properties

\* The step in which the handler of the request in flight runs.
Handled == ~cur.done /\ cur'.done

\* The ObjectID the :id parameter of the request names.
Target == ObjectIDFromHex(cur.id)

Decodes(body) == ~BindJSON(body).err

\* C1: a Create whose body decodes, whose title has length >= 5 and whose
\* insert succeeds is answered 201 with a task whose completed is false,
\* whatever completed the body carried.
CreateRespondsNotCompleted ==
    (/\ cur.done
     /\ cur.op = "Create"
     /\ Decodes(cur.body)
     /\ GoLen(cur.body.title) >= MinTitleLen
     /\ cur.call = "ok")
    => (cur.status = StatusCreated /\ cur.task.Completed = FALSE)

CreateRespondsNotCompletedWitness ==
    /\ cur.done
    /\ cur.op = "Create"
    /\ cur.body.completed = TRUE
    /\ cur.call = "ok"
    /\ cur.status = StatusCreated
    /\ cur.task.Completed = FALSE

\* C2: a Create whose title is empty or shorter than 5 characters is answered
\* 422 and leaves the stored tasks as they were.
ShortTitleRejected ==
    [][(/\ Handled
        /\ cur.op = "Create"
        /\ Decodes(cur.body)
        /\ Chars(cur.body.title) < MinTitleLen)
       => (cur'.status = StatusUnprocessableEntity /\ store' = store)]_vars

\* What the code does give for C2: a title whose UTF-8 encoding is shorter
\* than 5 bytes is answered 422 and nothing is stored.
ShortEncodingRejected ==
    [][(/\ Handled
        /\ cur.op = "Create"
        /\ Decodes(cur.body)
        /\ GoLen(cur.body.title) < MinTitleLen)
       => (cur'.status = StatusUnprocessableEntity /\ store' = store)]_vars

\* A body Update accepts: it decodes and its title passes the validation.
ValidBody(body) == Decodes(body) /\ GoLen(body.title) >= MinTitleLen

\* C3: Get-by-id, Update (with a valid body) and Delete of a well-formed id
\* that matches no stored task are each answered 404, whenever the store
\* answers at all.
MissRespondsNotFound ==
    [][(/\ Handled
        /\ \/ cur.op \in {"Get", "Delete"}
           \/ cur.op = "Update" /\ ValidBody(cur.body)
        /\ ~Target.err
        /\ Target.id \notin DOMAIN store
        /\ cur'.call # "unavailable")
       => cur'.status = StatusNotFound]_vars

\* What the code does give for C3: the Update and the Delete of such an id
\* are answered 404.
UpdateDeleteMissNotFound ==
    [][(/\ Handled
        /\ \/ cur.op = "Delete"
           \/ cur.op = "Update" /\ ValidBody(cur.body)
        /\ ~Target.err
        /\ Target.id \notin DOMAIN store
        /\ cur'.call # "unavailable")
       => cur'.status = StatusNotFound]_vars

\* C4: a Get-by-id that follows a successful Create and uses the id of the
\* task in the Create's response is answered 200 with that task's title and
\* completed, whenever the store answers at all.
CreateThenGetRoundTrip ==
    [][(/\ Handled
        /\ cur.op = "Get"
        /\ created.valid
        /\ cur.id = Hex(created.task.ID)
        /\ cur'.call # "unavailable")
       => (/\ cur'.status = StatusOK
           /\ cur'.task.Title = created.task.Title
           /\ cur'.task.Completed = created.task.Completed)]_vars

\* C5: an Update of an existing task that changes only completed, with a
\* title that passes the validation, leaves the task under its id and stores
\* the completed value of the body, be it true or false.
UpdatePersistsCompleted ==
    [][(/\ Handled
        /\ cur.op = "Update"
        /\ ~Target.err
        /\ Target.id \in DOMAIN store
        /\ ValidBody(cur.body)
        /\ cur.body.id = <<>>
        /\ cur.body.title = store[Target.id].title
        /\ cur'.call # "unavailable")
       => (/\ DOMAIN store' = DOMAIN store
           /\ DecodeTask(Target.id, store'[Target.id]).Completed = cur.body.completed)]_vars

\* The other case of C5, an Update whose body omits the title: the code
\* answers 422 and stores nothing.
UpdateWithoutTitlePersistsCompleted ==
    [][(/\ Handled
        /\ cur.op = "Update"
        /\ ~Target.err
        /\ Target.id \in DOMAIN store
        /\ Decodes(cur.body)
        /\ cur.body.title = TitleEmpty
        /\ cur'.call # "unavailable")
       => (/\ DOMAIN store' = DOMAIN store
           /\ DecodeTask(Target.id, store'[Target.id]).Completed = cur.body.completed)]_vars

\* What the code does give for C5: an Update answered 200 keeps the ids of
\* the collection, stores the title of the body, and stores completed when
\* the body says true.
UpdateSetsTrueOnly ==
    [][(/\ Handled
        /\ cur.op = "Update"
        /\ cur'.status = StatusOK)
       => (/\ DOMAIN store' = DOMAIN store
           /\ Target.id \in DOMAIN store
           /\ DecodeTask(Target.id, store'[Target.id]).Title = cur.body.title
           /\ DecodeTask(Target.id, store'[Target.id]).Completed
                = (cur.body.completed
                   \/ DecodeTask(Target.id, store[Target.id]).Completed))]_vars

\* C6: every stored task has a non-empty id and a title of at least 5 characters.
StoredTasksValid ==
    \A id \in DOMAIN store :
        /\ id # NilObjectID
        /\ "title" \in store[id].fields
        /\ Chars(store[id].title) >= MinTitleLen

\* What the code does give for C6: a non-empty id and a title whose UTF-8
\* encoding has at least 5 bytes.
StoredTasksEncodedValid ==
    \A id \in DOMAIN store :
        /\ id # NilObjectID
        /\ "title" \in store[id].fields
        /\ GoLen(store[id].title) >= MinTitleLen

\* C7: once the interrupt has arrived no request is accepted, the request in
\* flight has its response before the process ends, and no handler calls the
\* store on a disconnected client.
ShutdownOrdering ==
    /\ cur.op # "none" => cur.acceptedIn = "serving"
    /\ pc = "exited" => cur.done
    /\ cur.calledOn # "disconnected"

\* C8: no request is accepted before the connection is established, and with
\* no MONGO_URI, or a server that cannot be reached in time, the process
\* never serves and ends with the error printed.
StartupOrdering ==
    /\ cur.op # "none" => Client # "nil"
    /\ Listening => (Client # "nil" /\ environ.MONGO_URI # "" /\ environ.mongo = "up")
    /\ (pc # "start" /\ (environ.MONGO_URI = "" \/ environ.mongo # "up"))
       => (pc = "exited" /\ stdout # "" /\ cur.op = "none" /\ store = NoStore)

StartupOrderingWitness ==
    /\ environ.MONGO_URI # ""
    /\ environ.mongo = "silent"
    /\ pc = "exited"
    /\ stdout = "context deadline exceeded"
    /\ Client = "nil"

\* C9: the Delete of the id of a stored task is answered 200 and removes the
\* task, and a Delete of an id deleted before and not inserted since is
\* answered 404, whenever the store call succeeds.
DeleteTwice ==
    [][(/\ Handled
        /\ cur.op = "Delete"
        /\ ~Target.err
        /\ cur'.call = "ok")
       => (/\ Target.id \in DOMAIN store
              => (cur'.status = StatusOK /\ Target.id \notin DOMAIN store')
           /\ Target.id \in deleted => cur'.status = StatusNotFound)]_vars

DeleteTwiceWitness ==
    /\ cur.done
    /\ cur.op = "Delete"
    /\ Target.id \in deleted
    /\ cur.call = "ok"
    /\ cur.status = StatusNotFound

\* C10: Get-by-id, Update and Delete with an :id that is no ObjectID are
\* answered 400 without a store call, whatever the body.
InvalidIdBadRequest ==
    [][(/\ Handled
        /\ cur.op \in {"Get", "Update", "Delete"}
        /\ Target.err)
       => (cur'.status = StatusBadRequest /\ cur'.call = "none" /\ store' = store)]_vars

InvalidIdBadRequestWitness ==
    /\ cur.done
    /\ cur.op = "Update"
    /\ cur.id = NonHexParam
    /\ cur.body = MalformedBody
    /\ cur.status = StatusBadRequest
    /\ cur.call = "none"

====
